---- MODULE Spec2Model ----
(***************************************************************************)
(* A model of src/app.py, the Streamlit "Image to PDF Converter" script.   *)
(*                                                                         *)
(* The script is executed top to bottom ("rerun") every time the user      *)
(* touches a widget.  The state is the widget state (uploaded files,       *)
(* selected quality, the rendered button), the script's names (images,     *)
(* total_image_size_bytes, estimates, scale, dpi, disabled, processed,     *)
(* pdf_bytes), the elements put on the page (load errors, success,         *)
(* download button, conversion error) and the position of the script.      *)
(*                                                                         *)
(* Scales are fixed-point numbers in hundredths: 1.0 is 100, 0.5 is 50,    *)
(* 0.25 is 25 and the estimator's guard rail 0.05 is 5.  The three preset  *)
(* scales are exact binary fractions, so w * scale is exact in the         *)
(* program's floating point and (w * s) \div 100 is int(w * scale).        *)
(***************************************************************************)
EXTENDS Integers, Sequences, FiniteSets, TLC

VARIABLES
    uploaded_files,          \* st.file_uploader's value: the files, in upload order
    quality_choice,          \* st.radio's value: a label of QUALITY_PRESETS
    clicked,                 \* st.button's value in the current rerun
    pc,                      \* position of the script; "idle" = waiting for the user
    i,                       \* index of the running for-loop (1-based)
    images,                  \* the working set of loaded bitmaps
    total_image_size_bytes,
    load_errors,             \* st.error elements of the loader: the file names
    QUALITY_PRESETS,
    estimates,
    scale,
    dpi,
    disabled,
    processed,
    pdf_bytes,               \* the pages written to the in-memory buffer so far
    success,                 \* st.success is on the page
    download,                \* st.download_button elements on the page (their data)
    conv_error,              \* st.error("Conversion failed: ...") is on the page
    phases,                  \* the phases the current conversion run went through
    call                     \* a single function application (pure-function contracts)

vars == <<uploaded_files, quality_choice, clicked, pc, i, images,
          total_image_size_bytes, load_errors, QUALITY_PRESETS, estimates,
          scale, dpi, disabled, processed, pdf_bytes, success, download,
          conv_error, phases, call>>

(***************************************************************************)
(* Bounds.                                                                 *)
(***************************************************************************)
MaxFiles == 2       \* most files in the uploader at once
MaxDim == 2         \* widest / tallest upload of the interactive model
MaxSide == 6        \* widest / tallest bitmap given to the resampler alone
MaxBytes == 6       \* largest byte count given to the estimator alone
MaxScalePct == 110  \* estimator scales range over -1.10 .. 1.10

Modes == {"RGB", "L"}

Max(a, b) == IF a >= b THEN a ELSE b
Min(a, b) == IF a <= b THEN a ELSE b

(***************************************************************************)
(* Uploads.  A file either has an unreadable header (Image.open raises),   *)
(* or a readable header with unreadable pixel data (Image.open is lazy and *)
(* succeeds; the first operation that needs the pixels raises), or is a    *)
(* sound w x h raster.  name identifies the file; size is its byte length  *)
(* (one byte per channel and pixel).                                       *)
(***************************************************************************)
Channels(mode) == IF mode = "RGB" THEN 3 ELSE 1

ModeIndex(mode) == IF mode = "RGB" THEN 0 ELSE 1

File(name, opens, mode, intact, w, h) ==
    [name |-> name, opens |-> opens, mode |-> mode, intact |-> intact,
     w |-> w, h |-> h, size |-> w * h * Channels(mode)]

Files ==
    {File(0, FALSE, "RGB", FALSE, 1, 1)}
    \cup {File(1 + ModeIndex(m), TRUE, m, FALSE, 1, 1) : m \in Modes}
    \cup {File(3 + (ModeIndex(m) * MaxDim + (w - 1)) * MaxDim + (h - 1),
               TRUE, m, TRUE, w, h) :
            m \in Modes, w \in 1..MaxDim, h \in 1..MaxDim}

(***************************************************************************)
(* PIL operations used by the script.                                      *)
(***************************************************************************)
Image_open_raises(f) == ~f.opens

Image_open(f) ==
    [src |-> f.name, mode |-> f.mode, intact |-> f.intact, w |-> f.w, h |-> f.h]

convert_raises(img) == ~img.intact

\* A conversion that leaves the image as it is.
convert_noop(img, mode) == img

convert(img, mode) == [img EXCEPT !.mode = mode]

resize_raises(im) == ~im.intact

resize(im, new_size) == [im EXCEPT !.w = new_size[1], !.h = new_size[2]]

save_raises(im) == ~im.intact

Page(im, resolution) ==
    [src |-> im.src, mode |-> im.mode, w |-> im.w, h |-> im.h,
     resolution |-> resolution]

(***************************************************************************)
(* Lines 42-60: the preset registry and the size estimate.                 *)
(***************************************************************************)
Labels == <<"High (300 DPI)", "Medium (150 DPI)", "Low (72 DPI)">>

Presets ==
    [label \in {Labels[k] : k \in 1..3} |->
        IF label = "High (300 DPI)" THEN [scale |-> 100, dpi |-> 300]
        ELSE IF label = "Medium (150 DPI)" THEN [scale |-> 50, dpi |-> 150]
        ELSE [scale |-> 25, dpi |-> 72]]

\* The estimate without its guard rails.
estimate_unclamped(total_bytes, s) == total_bytes * s

estimate_pdf_size(total_bytes, s) == total_bytes * Max(Min(s, 100), 5)

(***************************************************************************)
(* Lines 102-108: one bitmap through the resampler.                        *)
(***************************************************************************)
\* Python's round(): to the nearest integer, a tie to the even one.
PyRound(num, den) ==
    LET q == num \div den
        r == num % den
    IN  IF 2 * r < den THEN q
        ELSE IF 2 * r > den THEN q + 1
        ELSE IF q % 2 = 0 THEN q ELSE q + 1

\* The new size with round() in place of int().
new_size_rounded(im, s) ==
    <<Max(1, PyRound(im.w * s, 100)), Max(1, PyRound(im.h * s, 100))>>

\* The new size without max(1, ...).
new_size_unguarded(im, s) == <<(im.w * s) \div 100, (im.h * s) \div 100>>

new_size(im, s) ==
    <<Max(1, (im.w * s) \div 100), Max(1, (im.h * s) \div 100)>>

Resampled(im, s) == IF s < 100 THEN resize(im, new_size(im, s)) ELSE im

Resample_raises(im, s) == s < 100 /\ resize_raises(im)

(***************************************************************************)
(* Initial state: the page as first rendered, nothing uploaded.            *)
(***************************************************************************)
NoCall == [fn |-> "none"]

FirstRender ==
    /\ uploaded_files = <<>>
    /\ quality_choice = Labels[1]
    /\ clicked = FALSE
    /\ pc = "idle"
    /\ i = 1
    /\ images = <<>>
    /\ total_image_size_bytes = 0
    /\ load_errors = <<>>
    /\ QUALITY_PRESETS = Presets
    /\ estimates = [label \in DOMAIN Presets |-> estimate_pdf_size(0, Presets[label].scale)]
    /\ scale = Presets[Labels[1]].scale
    /\ dpi = Presets[Labels[1]].dpi
    /\ disabled = TRUE
    /\ processed = <<>>
    /\ pdf_bytes = <<>>
    /\ success = FALSE
    /\ download = <<>>
    /\ conv_error = FALSE
    /\ phases = <<>>

Init == FirstRender /\ call = NoCall

(***************************************************************************)
(* A widget interaction starts a rerun: the page is cleared, the script's  *)
(* names are unbound and lines 24-25 bind images and the byte total anew.  *)
(* The widgets keep their values; the button stays as rendered until the   *)
(* script reaches it again.                                                *)
(***************************************************************************)
Rerun(click) ==
    /\ pc' = "load"
    /\ i' = 1
    /\ clicked' = click
    /\ images' = <<>>
    /\ total_image_size_bytes' = 0
    /\ load_errors' = <<>>
    /\ processed' = <<>>
    /\ pdf_bytes' = <<>>
    /\ success' = FALSE
    /\ download' = <<>>
    /\ conv_error' = FALSE
    /\ phases' = <<>>
    /\ UNCHANGED <<QUALITY_PRESETS, estimates, scale, dpi, disabled, call>>

RemoveAt(s, k) == [j \in 1..(Len(s) - 1) |-> IF j < k THEN s[j] ELSE s[j + 1]]

AddFile ==
    /\ pc = "idle"
    /\ Len(uploaded_files) < MaxFiles
    /\ \E f \in Files : uploaded_files' = Append(uploaded_files, f)
    /\ UNCHANGED quality_choice
    /\ Rerun(FALSE)

RemoveFile ==
    /\ pc = "idle"
    /\ \E k \in 1..Len(uploaded_files) : uploaded_files' = RemoveAt(uploaded_files, k)
    /\ UNCHANGED quality_choice
    /\ Rerun(FALSE)

ChooseQuality ==
    /\ pc = "idle"
    /\ \E q \in DOMAIN QUALITY_PRESETS :
          /\ q # quality_choice
          /\ quality_choice' = q
    /\ UNCHANGED uploaded_files
    /\ Rerun(FALSE)

ClickConvert ==
    /\ pc = "idle"
    /\ ~disabled
    /\ UNCHANGED <<uploaded_files, quality_choice>>
    /\ Rerun(TRUE)

ClickDownload ==
    /\ pc = "idle"
    /\ download # <<>>
    /\ UNCHANGED <<uploaded_files, quality_choice>>
    /\ Rerun(FALSE)

(***************************************************************************)
(* Lines 27-37: one iteration of the loading loop.                         *)
(***************************************************************************)
\* A load error that ends the loop (break) instead of going on.
ReportLoadError_Aborts(f) ==
    /\ load_errors' = Append(load_errors, f.name)
    /\ i' = Len(uploaded_files) + 1
    /\ UNCHANGED <<pc, images, total_image_size_bytes>>

ReportLoadError(f) ==
    /\ load_errors' = Append(load_errors, f.name)
    /\ i' = i + 1
    /\ UNCHANGED <<pc, images, total_image_size_bytes>>

LoadImage ==
    /\ pc = "load"
    /\ i <= Len(uploaded_files)
    /\ LET uploaded_file == uploaded_files[i]
           img == Image_open(uploaded_file)
       IN  IF Image_open_raises(uploaded_file)
           THEN ReportLoadError(uploaded_file)
           ELSE IF img.mode # "RGB" /\ convert_raises(img)
           THEN ReportLoadError(uploaded_file)
           ELSE /\ images' = Append(images,
                                    IF img.mode # "RGB" THEN convert(img, "RGB") ELSE img)
                /\ total_image_size_bytes' = total_image_size_bytes + uploaded_file.size
                /\ i' = i + 1
                /\ UNCHANGED <<pc, load_errors>>
    /\ UNCHANGED <<uploaded_files, quality_choice, clicked, QUALITY_PRESETS, estimates,
                   scale, dpi, disabled, processed, pdf_bytes, success, download,
                   conv_error, phases, call>>

(***************************************************************************)
(* Lines 42-95: registry, estimates, the radio's selection, the button's   *)
(* disabled flag.                                                          *)
(***************************************************************************)
\* The button enabled by the uploads instead of the loaded images.
Disabled_ByUploads(imgs) == uploaded_files = <<>>

Disabled(imgs) == imgs = <<>>

\* The scale of the chosen preset with the tag of the first one.
Selected_MixedUp(presets, choice) ==
    [scale |-> presets[choice].scale, dpi |-> presets[Labels[1]].dpi]

Selected(presets, choice) == presets[choice]

RenderControls ==
    /\ pc = "load"
    /\ i > Len(uploaded_files)
    /\ QUALITY_PRESETS' = Presets
    /\ estimates' = [label \in DOMAIN Presets |->
                        estimate_pdf_size(total_image_size_bytes, Presets[label].scale)]
    /\ scale' = Selected(Presets, quality_choice).scale
    /\ dpi' = Selected(Presets, quality_choice).dpi
    /\ disabled' = Disabled(images)
    /\ pc' = "button"
    /\ UNCHANGED <<uploaded_files, quality_choice, clicked, i, images,
                   total_image_size_bytes, load_errors, processed, pdf_bytes, success,
                   download, conv_error, phases, call>>

(***************************************************************************)
(* Line 97-100: the button.  Not clicked: the script ends.                 *)
(***************************************************************************)
Button ==
    /\ pc = "button"
    /\ IF clicked
       THEN /\ pc' = "resample"
            /\ processed' = <<>>
            /\ i' = 1
            /\ phases' = <<"Resampling">>
       ELSE /\ pc' = "idle"
            /\ UNCHANGED <<processed, i, phases>>
    /\ clicked' = FALSE
    /\ UNCHANGED <<uploaded_files, quality_choice, images, total_image_size_bytes,
                   load_errors, QUALITY_PRESETS, estimates, scale, dpi, disabled,
                   pdf_bytes, success, download, conv_error, call>>

(***************************************************************************)
(* Lines 129-130: the handler of the try block.                            *)
(***************************************************************************)
\* A handler that offers what is in the buffer.
ConversionFailed_OffersPartial ==
    /\ conv_error' = TRUE
    /\ phases' = Append(phases, "AssemblyFailed")
    /\ pc' = "idle"
    /\ download' = <<pdf_bytes>>
    /\ UNCHANGED success

\* A handler that swallows the exception (except: pass).
ConversionFailed_Silent ==
    /\ phases' = Append(phases, "AssemblyFailed")
    /\ pc' = "idle"
    /\ UNCHANGED <<conv_error, success, download>>

ConversionFailed ==
    /\ conv_error' = TRUE
    /\ phases' = Append(phases, "AssemblyFailed")
    /\ pc' = "idle"
    /\ UNCHANGED <<success, download>>

(***************************************************************************)
(* Lines 101-108: one iteration of the resampling loop.                    *)
(***************************************************************************)
ResampleImage ==
    /\ pc = "resample"
    /\ i <= Len(images)
    /\ LET im == images[i]
       IN  IF Resample_raises(im, scale)
           THEN /\ ConversionFailed
                /\ UNCHANGED <<processed, i>>
           ELSE /\ processed' = Append(processed, Resampled(im, scale))
                /\ i' = i + 1
                /\ UNCHANGED <<pc, phases, conv_error, success, download>>
    /\ UNCHANGED <<uploaded_files, quality_choice, clicked, images,
                   total_image_size_bytes, load_errors, QUALITY_PRESETS, estimates,
                   scale, dpi, disabled, pdf_bytes, call>>

(***************************************************************************)
(* Line 111: the resampling loop is over, the output buffer is created.    *)
(***************************************************************************)
BeginSave ==
    /\ pc = "resample"
    /\ i > Len(images)
    /\ pdf_bytes' = <<>>
    /\ i' = 1
    /\ pc' = "save"
    /\ phases' = Append(phases, "Assembling")
    /\ UNCHANGED <<uploaded_files, quality_choice, clicked, images,
                   total_image_size_bytes, load_errors, QUALITY_PRESETS, estimates,
                   scale, dpi, disabled, processed, success, download, conv_error, call>>

(***************************************************************************)
(* Lines 113-119: processed[0].save(..., append_images=processed[1:]),     *)
(* one page at a time.  processed[0] of an empty list raises IndexError.   *)
(***************************************************************************)
\* append_images=processed: the first bitmap is written twice.
PagesToSave_All(proc) == <<Head(proc)>> \o proc

\* processed[0] followed by append_images=processed[1:].
PagesToSave(proc) == <<Head(proc)>> \o Tail(proc)

SavePage ==
    /\ pc = "save"
    /\ IF Len(processed) = 0
       THEN /\ ConversionFailed
            /\ UNCHANGED <<pdf_bytes, i>>
       ELSE IF save_raises(PagesToSave(processed)[i])
       THEN /\ ConversionFailed
            /\ UNCHANGED <<pdf_bytes, i>>
       ELSE /\ pdf_bytes' = Append(pdf_bytes, Page(PagesToSave(processed)[i], dpi))
            /\ i' = i + 1
            /\ pc' = IF i = Len(PagesToSave(processed)) THEN "saved" ELSE "save"
            /\ UNCHANGED <<phases, conv_error, success, download>>
    /\ UNCHANGED <<uploaded_files, quality_choice, clicked, images,
                   total_image_size_bytes, load_errors, QUALITY_PRESETS, estimates,
                   scale, dpi, disabled, processed, call>>

(***************************************************************************)
(* Lines 120-128: success message and download button.                     *)
(***************************************************************************)
OfferDownload ==
    /\ pc = "saved"
    /\ success' = TRUE
    /\ download' = <<pdf_bytes>>
    /\ phases' = Append(phases, "AssembledOK")
    /\ pc' = "idle"
    /\ UNCHANGED <<uploaded_files, quality_choice, clicked, i, images,
                   total_image_size_bytes, load_errors, QUALITY_PRESETS, estimates,
                   scale, dpi, disabled, processed, pdf_bytes, conv_error, call>>

UserStep == AddFile \/ RemoveFile \/ ChooseQuality \/ ClickConvert \/ ClickDownload

ScriptStep ==
    LoadImage \/ RenderControls \/ Button \/ ResampleImage \/ BeginSave \/ SavePage
    \/ OfferDownload

Next ==
    \/ AddFile
    \/ RemoveFile
    \/ ChooseQuality
    \/ ClickConvert
    \/ ClickDownload
    \/ LoadImage
    \/ RenderControls
    \/ Button
    \/ ResampleImage
    \/ BeginSave
    \/ SavePage
    \/ OfferDownload

Spec == Init /\ [][Next]_vars

\* The script is synchronous: once started, a rerun runs to its end.
FairSpec == Spec /\ WF_vars(ScriptStep)

page == <<uploaded_files, quality_choice, clicked, pc, i, images,
          total_image_size_bytes, load_errors, QUALITY_PRESETS, estimates,
          scale, dpi, disabled, processed, pdf_bytes, success, download,
          conv_error, phases>>

(***************************************************************************)
(* estimate_pdf_size on its own: one application to any byte count and any *)
(* scale, also scales no preset has.                                       *)
(***************************************************************************)
InitEstimate ==
    /\ FirstRender
    /\ call \in [fn : {"estimate_pdf_size"}, total_bytes : 0..MaxBytes,
                  scale : (0 - MaxScalePct)..MaxScalePct,
                  returned : {FALSE}, value : {0}]

ApplyEstimate ==
    /\ call.fn = "estimate_pdf_size"
    /\ ~call.returned
    /\ call' = [call EXCEPT !.returned = TRUE,
                            !.value = estimate_pdf_size(call.total_bytes, call.scale)]
    /\ UNCHANGED page

SpecEstimate == InitEstimate /\ [][ApplyEstimate]_vars

(***************************************************************************)
(* The body of the resampling loop on its own: one loaded bitmap (the      *)
(* loader leaves only RGB bitmaps in the working set) and one preset scale.*)
(***************************************************************************)
InitResample ==
    /\ FirstRender
    /\ call \in {[fn |-> "resample", im |-> im, scale |-> Presets[label].scale,
                   returned |-> FALSE, raised |-> FALSE, value |-> im] :
                    im \in [src : {0}, mode : {"RGB"}, intact : BOOLEAN,
                            w : 1..MaxSide, h : 1..MaxSide],
                    label \in DOMAIN Presets}

ApplyResample ==
    /\ call.fn = "resample"
    /\ ~call.returned
    /\ call' = IF Resample_raises(call.im, call.scale)
               THEN [call EXCEPT !.returned = TRUE, !.raised = TRUE]
               ELSE [call EXCEPT !.returned = TRUE,
                                 !.value = Resampled(call.im, call.scale)]
    /\ UNCHANGED page

SpecResample == InitResample /\ [][ApplyResample]_vars

(***************************************************************************)
(*                              Properties                                 *)
(***************************************************************************)
Names(files) == [k \in 1..Len(files) |-> files[k].name]

Sources(bitmaps) == [k \in 1..Len(bitmaps) |-> bitmaps[k].src]

\* A file fails to decode when its header cannot be read, or when it has to be
\* converted to RGB and its pixel data cannot be read.
FailsToDecode(f) == ~f.opens \/ (f.mode # "RGB" /\ ~f.intact)

Decodes(f) == ~FailsToDecode(f)

\* The files the loading loop has gone through so far.
Visited == IF pc = "load" THEN SubSeq(uploaded_files, 1, i - 1) ELSE uploaded_files

ResampleReturned == call.fn = "resample" /\ call.returned /\ ~call.raised

\* C2 as stated: at a scale below 1.0 each output side is
\* max(1, round(side * scale)).
C2_Original ==
    (ResampleReturned /\ call.scale < 100) =>
        /\ call.value.w = Max(1, PyRound(call.im.w * call.scale, 100))
        /\ call.value.h = Max(1, PyRound(call.im.h * call.scale, 100))

\* n is side * s / 100 with the fraction dropped, but at least 1.
IsTruncatedSide(n, side, s) ==
    \/ n = 1 /\ side * s < 200
    \/ n > 1 /\ n * 100 <= side * s /\ side * s < (n + 1) * 100

\* C2 as amended: at a preset scale below 1.0 each output side is
\* max(1, floor(side * scale)), the product truncated and not rounded, each
\* axis on its own.
C2_SidesAreTruncated ==
    (ResampleReturned /\ call.scale < 100) =>
        /\ IsTruncatedSide(call.value.w, call.im.w, call.scale)
        /\ IsTruncatedSide(call.value.h, call.im.h, call.scale)

C2_Witness ==
    /\ ResampleReturned
    /\ call.scale = 50
    /\ call.im.w = 3 /\ call.im.h = 2
    /\ call.value.w = 1 /\ call.value.h = 1

\* What an assembly that went through all of the working set leaves on the page.
Assembled ==
    /\ success
    /\ ~conv_error
    /\ download = <<pdf_bytes>>
    /\ Len(pdf_bytes) = Len(images)
    /\ Len(images) >= 1
    /\ \A k \in 1..Len(images) : images[k].intact

Failed == conv_error /\ ~success /\ download = <<>>

\* C3: a run that has ended either assembled every page and offers exactly that
\* document, or shows the conversion error and offers nothing; a download is
\* never on the page in any other state, also not while pages are being written.
C3_AllOrNothing ==
    /\ (pc = "idle" /\ phases # <<>>) => (Assembled \/ Failed)
    /\ download # <<>> => (pc = "idle" /\ Assembled)
    /\ conv_error => (pc = "idle" /\ Failed)
    /\ (\E k \in 1..Len(images) : ~images[k].intact) => download = <<>>

C3_Witness ==
    /\ pc = "idle"
    /\ conv_error
    /\ pdf_bytes # <<>>
    /\ download = <<>>
    /\ ~success

\* C4: a successful conversion of n >= 1 loaded bitmaps offers a document of
\* exactly n pages, page k made from the k-th loaded bitmap (which is the k-th
\* upload that decodes), every page tagged with the selected preset's
\* resolution.
C4_PagesInOrder ==
    success =>
        /\ Len(download) = 1
        /\ Len(images) >= 1
        /\ Len(download[1]) = Len(images)
        /\ \A k \in 1..Len(images) :
              /\ download[1][k].src = images[k].src
              /\ download[1][k].resolution = Presets[quality_choice].dpi
        /\ Sources(images) = Names(SelectSeq(uploaded_files, Decodes))

C4_Witness ==
    /\ success
    /\ Len(images) = 2
    /\ images[1].src # images[2].src
    /\ quality_choice = "Medium (150 DPI)"
    /\ download[1][1].resolution = 150

\* C5: with an empty working set the button is rendered disabled, the
\* conversion never runs (no resampling, no assembling, no run phases) and no
\* output bytes exist.
C5_EmptyNeverConverts ==
    /\ (pc \in {"idle", "button"} /\ images = <<>>) => disabled
    /\ pc \in {"resample", "save", "saved"} => images # <<>>
    /\ (pc = "idle" /\ images = <<>>) =>
          (phases = <<>> /\ pdf_bytes = <<>> /\ download = <<>> /\ ~conv_error)

C5_Witness ==
    /\ pc = "idle"
    /\ Len(uploaded_files) = 2
    /\ images = <<>>
    /\ disabled

\* C6: every resampled bitmap is at least 1 x 1, whatever the input sides and
\* the preset scale; at scale 1.0 the sides are the input's.
C6_AtLeastOneByOne ==
    ResampleReturned =>
        /\ call.value.w >= 1
        /\ call.value.h >= 1
        /\ call.scale = 100 => (call.value.w = call.im.w /\ call.value.h = call.im.h)

C6_Witness ==
    /\ ResampleReturned
    /\ call.scale = 25
    /\ call.im.w = 2 /\ call.im.h = 2
    /\ call.value.w = 1 /\ call.value.h = 1

Clamp(x, lo, hi) == IF x < lo THEN lo ELSE IF x > hi THEN hi ELSE x

EstimateReturned == call.fn = "estimate_pdf_size" /\ call.returned

\* C7: estimate_pdf_size(b, s) is b * clamp(s, 0.05, 1.0) for every b >= 0 and
\* every s, it lies between 0 and b, and the application changes nothing but
\* its own result.  (Values are in hundredths of a byte.)
C7_EstimateIsClamped ==
    /\ [](EstimateReturned =>
            /\ call.value = call.total_bytes * Clamp(call.scale, 5, 100)
            /\ call.value >= 0
            /\ call.value <= call.total_bytes * 100)
    /\ [][UNCHANGED page]_vars

C7_Witness ==
    /\ EstimateReturned
    /\ call.scale < 0
    /\ call.total_bytes = 2
    /\ call.value = 10

RegistryPairs == {<<100, 300>>, <<50, 150>>, <<25, 72>>}

\* C8: the registry always is the three pairs (1.0, 300), (0.5, 150),
\* (0.25, 72) and no step changes it; the selection starts at the first entry
\* and changes only by the user's choice; the scale and tag the run uses are
\* the selected entry's, so 0.05 <= scale <= 1.0 and the tag is 300, 150 or 72,
\* and every page written carries that tag.
C8_PresetRegistryFixed ==
    /\ quality_choice = "High (300 DPI)"
    /\ [](/\ {<<QUALITY_PRESETS[l].scale, QUALITY_PRESETS[l].dpi>> :
                 l \in DOMAIN QUALITY_PRESETS} = RegistryPairs
          /\ Cardinality(DOMAIN QUALITY_PRESETS) = 3
          /\ <<scale, dpi>> \in RegistryPairs
          /\ 5 <= scale /\ scale <= 100
          /\ dpi \in {300, 150, 72}
          /\ pc \in {"button", "resample", "save", "saved"} =>
                /\ scale = QUALITY_PRESETS[quality_choice].scale
                /\ dpi = QUALITY_PRESETS[quality_choice].dpi
          /\ \A k \in 1..Len(pdf_bytes) : pdf_bytes[k].resolution = dpi)
    /\ [][QUALITY_PRESETS' = QUALITY_PRESETS]_vars
    /\ [][quality_choice' # quality_choice => (pc = "idle" /\ pc' = "load")]_vars

C8_Witness ==
    /\ pc = "save"
    /\ quality_choice = "Low (72 DPI)"
    /\ scale = 25
    /\ dpi = 72
    /\ pdf_bytes # <<>>

RunEnded == pc = "idle" /\ phases # <<>>

C10_EverythingIsRGB ==
    /\ \A k \in 1..Len(images) : images[k].mode = "RGB"
    /\ \A k \in 1..Len(processed) : processed[k].mode = "RGB"
    /\ \A k \in 1..Len(pdf_bytes) : pdf_bytes[k].mode = "RGB"
    /\ \A d \in 1..Len(download) : \A k \in 1..Len(download[d]) :
          download[d][k].mode = "RGB"

C10_Witness ==
    /\ success
    /\ scale = 50
    /\ Len(uploaded_files) = 2
    /\ uploaded_files[1].mode = "L"
    /\ uploaded_files[2].mode = "L"
    /\ Len(download[1]) = 2

====
